---- MODULE Spec2Model ----
(***************************************************************************)
(* State-machine model of the arbitration pages of BridgeFacileV2:         *)
(*   ArbitragePage (tab container), CodeLaws and RncArticles (list views)  *)
(*   and LawViewer (detail viewer with breadcrumb and cross references).   *)
(* Every async function (fetchLaws, fetchArticles, fetchLaw) is a record   *)
(* in `calls`: its                                                         *)
(* position is the await it is suspended at.  A store read returns either  *)
(* data or an error, chosen when the response is delivered; responses are  *)
(* delivered in any order.                                                 *)
(***************************************************************************)
EXTENDS Integers, Sequences, FiniteSets

\* ---------------------------------------------------------------- bounds
MaxTrail == 2        \* longest breadcrumb the model lets navigateTo build
MaxCalls == 2        \* most async calls suspended at an await at once

\* ------------------------------------------------------------ the store
Null == 0            \* JS null for selectedLaw / selectedArticle (falsy)
NoLaw == [id |-> 0, law_number |-> 0]      \* useState(null) of `law`
LawNumbers == {1, 2, 40, 999}              \* numbers a reference may name

InitialLaws ==
    { [id |-> 1, law_number |-> 1],
      [id |-> 2, law_number |-> 2],
      [id |-> 3, law_number |-> 40] }

Edge(f, tt, t, c) ==
    [from_type |-> "code", from_id |-> f, to_type |-> tt, to_id |-> t, context |-> c]

\* the rows the administrators may remove while the page is open
Removable == {r \in InitialLaws : r.law_number = 40}

ScenarioEdge == Edge(40, "code", 1, "see opening lead")
ScenarioReferences == << ScenarioEdge >>

\* a store in which law 1 refers to itself and to a law that does not exist
SelfReferences == << Edge(1, "code", 1, ""), Edge(1, "code", 999, "") >>

\* table rnc_articles of the store; article_number is a text column
rnc_articles ==
    { [id |-> 1, article_number |-> 2],
      [id |-> 2, article_number |-> 10] }

InitialReferences ==
    << Edge(40, "code", 1, "see opening lead"),
       Edge(40, "rnc", 2, ""),
       Edge(1, "code", 999, ""),
       Edge(1, "code", 2, "") >>

VARIABLES
    code_laws,         \* table code_laws of the store: a set of rows
    cross_references,  \* table cross_references, in store order
    activeTab,         \* ArbitragePage.activeTab
    selectedLaw,       \* ArbitragePage.selectedLaw (Null or a law_number)
    selectedArticle,   \* ArbitragePage.selectedArticle
    laws,              \* CodeLaws.laws        (list view, when mounted)
    lawsLoading,       \* CodeLaws.loading     (list view, when mounted)
    articles,          \* RncArticles.articles (list view, when mounted)
    articlesLoading,   \* RncArticles.loading  (list view, when mounted)
    law,               \* LawViewer.law        (NoLaw is null)
    references,        \* LawViewer.references
    loading,           \* LawViewer.loading
    breadcrumb,        \* LawViewer.breadcrumb
    calls,             \* async calls suspended at an await, oldest first
    followed           \* history: the navigateTo call that was the last step

vars == << code_laws, cross_references, activeTab, selectedLaw,
           selectedArticle, laws, lawsLoading, articles, articlesLoading,
           law, references, loading,
           breadcrumb, calls, followed >>

store == << code_laws, cross_references >>
page == << activeTab, selectedLaw, selectedArticle >>
listView == << laws, lawsLoading >>
rncView == << articles, articlesLoading >>
viewer == << law, references, loading, breadcrumb >>

\* ------------------------------------------------------------- helpers
\* An async call suspended at an await.  fn: the function; number: its
\* argument; pc: the await it is at; live: its component is still mounted;
\* origin: the handler that called it; solo: no other load of the same viewer
\* was in flight at any time during this one.
Call(fn, number, pc, origin, solo) ==
    [fn |-> fn, number |-> number, pc |-> pc, live |-> TRUE,
     origin |-> origin, solo |-> solo]

NoCall == Call("", 0, "", "", TRUE)

\* History of navigateTo(type, id): its arguments and the breadcrumb it
\* found.  NoFollow when the last step was anything else.
Follow(type, id) == [type |-> type, id |-> id, before |-> breadcrumb]
NoFollow == [type |-> "", id |-> 0, before |-> <<>>]

RemoveAt_kept(s, i) == s
RemoveAt(s, i) == SubSeq(s, 1, i - 1) \o SubSeq(s, i + 1, Len(s))

\* Which component the page renders (ArbitragePage's JSX conditions).
ListMounted == activeTab = "code" /\ selectedLaw = Null
ViewerMounted == activeTab = "code" /\ selectedLaw # Null
RncMounted == activeTab = "rnc" /\ selectedArticle = Null

\* Unmounting a component: React drops the state updates of the async calls
\* the component still has in flight; the calls themselves keep running.
\* (origin and solo describe the call within its viewer and are cleared).
Unmounted(cs) ==
    [i \in 1..Len(cs) |->
       [cs[i] EXCEPT !.live = FALSE, !.origin = "", !.solo = TRUE]]

LiveLoads(cs) == {i \in 1..Len(cs) : cs[i].fn = "fetchLaw" /\ cs[i].live}

\* setLaw / setReferences of the call in slot i take effect whenever its
\* component is still mounted: a load is never cancelled, and nothing
\* compares a response with the load started last.
Applied_unmounted(cs, i) == TRUE
Applied_latest(cs, i) == cs[i].live /\ \A j \in LiveLoads(cs) : j <= i
Applied(cs, i) == cs[i].live

\* fetchLaw(number) up to its first await: the document read is in flight.
FetchLawCall(cs, number, origin) ==
    LET alone == LiveLoads(cs) = {}
        marked == [i \in 1..Len(cs) |->
                     IF i \in LiveLoads(cs) THEN [cs[i] EXCEPT !.solo = FALSE]
                     ELSE cs[i]]
    IN Append(marked, Call("fetchLaw", number, "law", origin, alone))

\* fetchLaws() up to its await.
FetchLawsCall(cs) == Append(cs, Call("fetchLaws", 0, "list", "mount", TRUE))

\* fetchLaws() as the click handler of the reload button, up to its await.
ReloadCall(cs) == Append(cs, Call("fetchLaws", 0, "list", "reload", TRUE))

\* fetchArticles() up to its await.
FetchArticlesCall(cs) == Append(cs, Call("fetchArticles", 0, "list", "mount", TRUE))

\* setBreadcrumb(prev => [...prev, { type, id }])
AppendEntry_nodup(prev, type, id) ==
    IF prev # <<>> /\ prev[Len(prev)] = [type |-> type, id |-> id]
       THEN prev
       ELSE Append(prev, [type |-> type, id |-> id])
AppendEntry_front(prev, type, id) == <<[type |-> type, id |-> id]>> \o prev
AppendEntry_replace(prev, type, id) == <<[type |-> type, id |-> id]>>
AppendEntry(prev, type, id) == Append(prev, [type |-> type, id |-> id])

\* breadcrumb.slice(0, index + 1)
Slice_short(trail, index) == SubSeq(trail, 1, index)
Slice(trail, index) == SubSeq(trail, 1, index + 1)

\* finally { setLoading(false) }: the flag after a call of the viewer ends
\* (a state update of an unmounted component is dropped).
Finally_skipped(live, flag) == flag
Finally(live, flag) == IF live THEN FALSE ELSE flag

\* .from('code_laws').select('*').eq('law_number', number)
LawRows(number) == {r \in code_laws : r.law_number = number}

\* .single(): an error unless exactly one row matches; lawError is thrown.
SingleOk_lenient(rows) == TRUE
SingleOk(rows) == Cardinality(rows) = 1

\* .single(): data is the one row, and null with an error.
SingleData_any(rows) == CHOOSE r \in code_laws : TRUE
SingleData(rows) ==
    IF Cardinality(rows) = 1 THEN CHOOSE r \in rows : TRUE ELSE NoLaw

\* .from('cross_references').select('*').eq('from_type','code').eq('from_id', number)
RefRows_unfiltered(number) == cross_references
RefRows_incoming(number) ==
    SelectSeq(cross_references,
              LAMBDA e : e.to_type = "code" /\ e.to_id = number)
RefRows(number) ==
    SelectSeq(cross_references,
              LAMBDA e : e.from_type = "code" /\ e.from_id = number)

\* .order(...) of the list query: rows by ascending law number.
RECURSIVE OrderRows(_)
OrderRows(rows) ==
    IF rows = {} THEN <<>>
    ELSE LET m == CHOOSE r \in rows : \A q \in rows : r.law_number <= q.law_number
         IN <<m>> \o OrderRows(rows \ {m})

\* The decimal text of a number, as a sequence of digits, and the order of
\* two texts character by character (the order of a text column).
RECURSIVE Digits(_)
Digits(n) == IF n < 10 THEN <<n>> ELSE Append(Digits(n \div 10), n % 10)

RECURSIVE TextLeq(_, _)
TextLeq(a, b) ==
    IF a = <<>> THEN TRUE
    ELSE IF b = <<>> THEN FALSE
    ELSE IF Head(a) # Head(b) THEN Head(a) < Head(b)
    ELSE TextLeq(Tail(a), Tail(b))

\* .order('article_number'): rows by ascending article_number, a text.
RECURSIVE OrderArticles(_)
OrderArticles(rows) ==
    IF rows = {} THEN <<>>
    ELSE LET m == CHOOSE r \in rows : \A q \in rows :
                      TextLeq(Digits(r.article_number), Digits(q.article_number))
         IN <<m>> \o OrderArticles(rows \ {m})

\* useState initial values of the components
ListInit == laws' = <<>> /\ lawsLoading' = TRUE
RncInit == articles' = <<>> /\ articlesLoading' = TRUE
\* useState([]) of the breadcrumb: every LawViewer instance starts with an
\* empty trail, whatever an earlier instance held.
InitialTrail_kept == breadcrumb
InitialTrail == <<>>

ViewerInit ==
    law' = NoLaw /\ references' = <<>> /\ loading' = TRUE /\ breadcrumb' = InitialTrail

\* ---------------------------------------------------------------- Init
\* The page has just rendered: CodeLaws is mounted and its effect has
\* called fetchLaws().
InitWith(refs) ==
    /\ code_laws = InitialLaws
    /\ cross_references = refs
    /\ activeTab = "code"
    /\ selectedLaw = Null
    /\ selectedArticle = Null
    /\ laws = <<>>
    /\ lawsLoading = TRUE
    /\ articles = <<>>
    /\ articlesLoading = TRUE
    /\ law = NoLaw
    /\ references = <<>>
    /\ loading = TRUE
    /\ breadcrumb = <<>>
    /\ calls = FetchLawsCall(<<>>)
    /\ followed = NoFollow

Init == InitWith(InitialReferences)

\* The same page over the store of the worked example: laws 1, 2 and 40 and
\* the single edge 40 -> 1.
InitScenario == InitWith(ScenarioReferences)

\* -------------------------------------------------------------- actions
\* Mounting LawViewer with lawNumber = n: useState defaults, then the effect:
\* fetchLaw(lawNumber) and setBreadcrumb(prev => [...prev, {code, lawNumber}]).
MountViewer(n, cs) ==
    /\ law' = NoLaw
    /\ references' = <<>>
    /\ loading' = TRUE
    /\ breadcrumb' = IF n # Null THEN AppendEntry(InitialTrail, "code", n)
                              ELSE InitialTrail
    /\ calls' = IF n # Null THEN FetchLawCall(cs, n, "mount") ELSE cs

\* Mounting CodeLaws: useState defaults, then the effect calls fetchLaws(),
\* whose setLoading(true) runs before the await.
MountList(cs) ==
    /\ laws' = <<>>
    /\ lawsLoading' = TRUE
    /\ calls' = FetchLawsCall(cs)

\* Mounting RncArticles: useState defaults, then the effect calls
\* fetchArticles().
MountRnc(cs) ==
    /\ articles' = <<>>
    /\ articlesLoading' = TRUE
    /\ calls' = FetchArticlesCall(cs)

\* CodeLaws row click: onSelectLaw && onSelectLaw(law.law_number), which is
\* ArbitragePage's setSelectedLaw; the list unmounts, the viewer mounts.
onSelectLaw(n) ==
    /\ ListMounted
    /\ \E i \in 1..Len(laws) : laws[i].law_number = n
    /\ Len(calls) < MaxCalls
    /\ selectedLaw' = n
    /\ MountViewer(n, Unmounted(calls))
    /\ ListInit
    /\ UNCHANGED << store, activeTab, selectedArticle, rncView >>
    /\ followed' = NoFollow

\* CodeLaws reload button: onClick={fetchLaws}.  The list and the loading
\* flag are left as they are until the response.
reload ==
    /\ ListMounted
    /\ Len(calls) < MaxCalls
    /\ calls' = ReloadCall(calls)
    /\ UNCHANGED << store, page, listView, rncView, viewer >>
    /\ followed' = NoFollow

\* The "Accueil" link is rendered above the loading / law / not-found
\* alternatives, so whenever LawViewer is rendered.
BackShown_loaded == ViewerMounted /\ ~loading
BackShown == ViewerMounted

\* LawViewer's "Accueil" link: onBack = () => setSelectedLaw(null).
onBack ==
    /\ BackShown
    /\ Len(calls) < MaxCalls
    /\ selectedLaw' = Null
    /\ ViewerInit
    /\ MountList(Unmounted(calls))
    /\ UNCHANGED << store, activeTab, selectedArticle, rncView >>
    /\ followed' = NoFollow

\* Tab buttons: onClick={() => setActiveTab(t)}.  Only activeTab is set;
\* what is mounted follows from the JSX conditions of ArbitragePage.
setActiveTab(t) ==
    /\ activeTab' = t
    /\ UNCHANGED << store, selectedLaw, selectedArticle >>
    /\ IF t = activeTab
          THEN UNCHANGED << listView, rncView, viewer, calls >>
       ELSE IF t = "code"
          THEN /\ Len(calls) < MaxCalls
               /\ RncInit
               /\ IF selectedLaw = Null
                     THEN MountList(Unmounted(calls)) /\ UNCHANGED viewer
                     ELSE MountViewer(selectedLaw, Unmounted(calls))
                          /\ UNCHANGED listView
       ELSE IF t = "rnc" /\ selectedArticle = Null
          THEN /\ Len(calls) < MaxCalls
               /\ ListInit /\ ViewerInit
               /\ MountRnc(Unmounted(calls))
       ELSE ListInit /\ RncInit /\ ViewerInit /\ calls' = Unmounted(calls)
    /\ followed' = NoFollow

\* Reference link: onClick={() => navigateTo(ref.to_type, ref.to_id)}; the
\* links are rendered only in the branch !loading && law.
\* if (type === 'code') { ... } else if (type === 'rnc') { }
LoadsTarget_any(type) == type \in {"code", "rnc"}
LoadsTarget(type) == type = "code"

\* loading ? ... : law ? <detail with the reference links> : ...
LinksShown_loading == law # NoLaw
LinksShown == ~loading /\ law # NoLaw

navigateTo(type, id) ==
    /\ ViewerMounted
    /\ LinksShown
    /\ \E k \in 1..Len(references) :
          references[k].to_type = type /\ references[k].to_id = id
    /\ UNCHANGED << store, page, listView, rncView, law, references >>
    /\ IF LoadsTarget(type)
          THEN /\ Len(breadcrumb) < MaxTrail
               /\ Len(calls) < MaxCalls
               /\ loading' = TRUE
               /\ calls' = FetchLawCall(calls, id, "navigateTo")
               /\ breadcrumb' = AppendEntry(breadcrumb, type, id)
          ELSE UNCHANGED << loading, calls, breadcrumb >>
    /\ followed' = Follow(type, id)

\* Breadcrumb link: onClick={() => navigateBack(index)}, index from 0.
navigateBack(index) ==
    /\ ViewerMounted
    /\ index \in 0..(Len(breadcrumb) - 1)
    /\ LET item == breadcrumb[index + 1] IN
         /\ breadcrumb' = Slice(breadcrumb, index)
         /\ IF item.type = "code"
               THEN /\ Len(calls) < MaxCalls
                    /\ loading' = TRUE
                    /\ calls' = FetchLawCall(calls, item.id, "navigateBack")
               ELSE UNCHANGED << loading, calls >>
    /\ UNCHANGED << store, page, listView, rncView, law, references >>
    /\ followed' = NoFollow

\* fetchLaw resumes after the document read.
LawResponse(i, ok) ==
    /\ i \in 1..Len(calls)
    /\ calls[i].fn = "fetchLaw" /\ calls[i].pc = "law"
    /\ LET c == calls[i]
           rows == LawRows(c.number)
       IN IF ok /\ SingleOk(rows)
             THEN \* setLaw(lawData); the references read is issued
                  /\ law' = IF Applied(calls, i) THEN SingleData(rows) ELSE law
                  /\ calls' = [calls EXCEPT ![i].pc = "refs"]
                  /\ UNCHANGED loading
             ELSE \* throw lawError; catch; finally setLoading(false)
                  /\ loading' = Finally(c.live, loading)
                  /\ calls' = RemoveAt(calls, i)
                  /\ UNCHANGED law
    /\ UNCHANGED << store, page, listView, rncView, references, breadcrumb >>
    /\ followed' = NoFollow

\* fetchLaw resumes after the references read.
RefsResponse(i, ok) ==
    /\ i \in 1..Len(calls)
    /\ calls[i].fn = "fetchLaw" /\ calls[i].pc = "refs"
    /\ LET c == calls[i] IN
         /\ references' = IF ok /\ Applied(calls, i) THEN RefRows(c.number)
                           ELSE references
         /\ loading' = Finally(c.live, loading)
         /\ calls' = RemoveAt(calls, i)
    /\ UNCHANGED << store, page, listView, rncView, law, breadcrumb >>
    /\ followed' = NoFollow

\* fetchLaws resumes after the list read.
ListResponse(i, ok) ==
    /\ i \in 1..Len(calls)
    /\ calls[i].fn = "fetchLaws" /\ calls[i].pc = "list"
    /\ LET c == calls[i] IN
         /\ laws' = IF ok /\ c.live THEN OrderRows(code_laws) ELSE laws
         /\ lawsLoading' = IF c.live THEN FALSE ELSE lawsLoading
         /\ calls' = RemoveAt(calls, i)
    /\ UNCHANGED << store, page, rncView, viewer >>
    /\ followed' = NoFollow

\* fetchArticles resumes after the list read.
ArticlesResponse(i, ok) ==
    /\ i \in 1..Len(calls)
    /\ calls[i].fn = "fetchArticles" /\ calls[i].pc = "list"
    /\ LET c == calls[i] IN
         /\ articles' = IF ok /\ c.live THEN OrderArticles(rnc_articles) ELSE articles
         /\ articlesLoading' = IF c.live THEN FALSE ELSE articlesLoading
         /\ calls' = RemoveAt(calls, i)
    /\ UNCHANGED << store, page, listView, viewer >>
    /\ followed' = NoFollow

\* The store is external: its administrators may remove a document at any
\* time (the client only reads).
AdminDelete(r) ==
    /\ r \in code_laws
    /\ code_laws' = code_laws \ {r}
    /\ UNCHANGED << cross_references, page, listView, rncView, viewer, calls >>
    /\ followed' = NoFollow

Tabs == {"code", "rnc", "categories"}
RefTypes == {"code", "rnc"}

Next ==
    \/ \E n \in LawNumbers : onSelectLaw(n)
    \/ onBack
    \/ reload
    \/ \E t \in Tabs : setActiveTab(t)
    \/ \E type \in RefTypes, id \in LawNumbers : navigateTo(type, id)
    \/ \E index \in 0..(MaxTrail - 1) : navigateBack(index)
    \/ \E i \in 1..MaxCalls, ok \in BOOLEAN : LawResponse(i, ok)
    \/ \E i \in 1..MaxCalls, ok \in BOOLEAN : RefsResponse(i, ok)
    \/ \E i \in 1..MaxCalls, ok \in BOOLEAN : ListResponse(i, ok)
    \/ \E i \in 1..MaxCalls, ok \in BOOLEAN : ArticlesResponse(i, ok)
    \/ \E r \in Removable : AdminDelete(r)

Spec == Init /\ [][Next]_vars

SpecScenario == InitScenario /\ [][Next]_vars

\* The same page over the store in which law 1 refers to itself.
InitSelf == InitWith(SelfReferences)

SpecSelf == InitSelf /\ [][Next]_vars

\* A store read that was issued returns: the await of a suspended call
\* resumes with data or with an error.
Response ==
    \E i \in 1..MaxCalls, ok \in BOOLEAN :
        \/ LawResponse(i, ok)
        \/ RefsResponse(i, ok)
        \/ ListResponse(i, ok)
        \/ ArticlesResponse(i, ok)

\* The page under the assumption that every issued read eventually returns
\* (over the store of the worked example, which keeps the behaviour graph
\* small enough for the liveness check).
FairSpec == InitScenario /\ [][Next]_vars /\ WF_vars(Response)

\* ======================================================================
\* Properties
\* ======================================================================
IsPrefix(p, t) == Len(p) <= Len(t) /\ \A k \in 1..Len(p) : p[k] = t[k]

Displayed == ViewerMounted /\ ~loading /\ law # NoLaw
NotFoundShown == ViewerMounted /\ ~loading /\ law = NoLaw
LastEntry == breadcrumb[Len(breadcrumb)]
LastCall == calls[Len(calls)]
Entry(type, id) == [type |-> type, id |-> id]

CallSlots == 1..MaxCalls
TrailIndexes == 0..(MaxTrail - 1)

\* the call in slot i belongs to the mounted viewer and no other load of
\* that viewer was in flight at any time since it started
SoloLoad(i) == calls[i].live /\ calls[i].solo
Missing(i) == LawRows(calls[i].number) = {}

\* C1: whenever a document is displayed (law non-null, loading false), the
\* last breadcrumb entry identifies it: its id is the displayed law_number.
C1_LastEntryIsDisplayed ==
    Displayed => (Len(breadcrumb) > 0 /\ LastEntry.id = law.law_number)

\* C2: every follow, of a Code or an RNC reference, makes the trail one
\* longer and ends it with {type, id}.
C2_FollowAppendsAnyType ==
    followed # NoFollow =>
        /\ Len(breadcrumb) = Len(followed.before) + 1
        /\ LastEntry = Entry(followed.type, followed.id)

\* C3: jumpTo(index) on a trail of length N, 0 <= index < N, leaves exactly
\* the entries 0..index of the previous trail and issues a load of the
\* document recorded at index.
C3_JumpToPrefix ==
    [][\A index \in TrailIndexes :
          navigateBack(index) =>
              /\ index < Len(breadcrumb)
              /\ Len(breadcrumb') = index + 1
              /\ \A k \in 1..(index + 1) : breadcrumb'[k] = breadcrumb[k]
              /\ loading'
              /\ Len(calls') = Len(calls) + 1
              /\ calls'[Len(calls')].fn = "fetchLaw"
              /\ calls'[Len(calls')].pc = "law"
              /\ calls'[Len(calls')].live
              /\ calls'[Len(calls')].number = breadcrumb[index + 1].id]_vars

\* a jump to entry 0 has just cut a trail that was longer: law 1, reached
\* from law 40, is still the loaded document while the trail is [40]
C3_Witness ==
    /\ ViewerMounted /\ loading
    /\ breadcrumb = <<Entry("code", 40)>>
    /\ law.law_number = 1
    /\ Len(calls) > 0 /\ LastCall.live /\ LastCall.origin = "navigateBack"
    /\ LastCall.number = 40

\* C4: a follow keeps the previous trail as a prefix of the new one, and a
\* step of a mounted viewer that does not is a jumpTo.
C4_OnlyJumpToShortens ==
    [][/\ \A type \in RefTypes, id \in LawNumbers :
             navigateTo(type, id) => IsPrefix(breadcrumb, breadcrumb')
       /\ (ViewerMounted /\ ViewerMounted' /\ ~IsPrefix(breadcrumb, breadcrumb'))
             => \E index \in TrailIndexes : navigateBack(index)]_vars

\* a follow has just extended the trail [40]: the entry 40 is still first
C4_Witness ==
    /\ ViewerMounted /\ loading
    /\ followed # NoFollow /\ followed.before = <<Entry("code", 40)>>
    /\ Len(breadcrumb) = 2 /\ breadcrumb[1] = Entry("code", 40)
    /\ Len(calls) > 0 /\ LastCall.live /\ LastCall.origin = "navigateTo"

\* C5: a step that changes the active tab leaves no document selected.
C5_TabSwitchClearsSelection ==
    [][activeTab' # activeTab => (selectedLaw' = Null /\ selectedArticle' = Null)]_vars

\* C6: when a document is loaded and a load started by a follow or a jump
\* ends because its target does not exist, no other load sharing the viewer,
\* the viewer shows the not-found state.
C6_MissingTargetShowsNotFound ==
    [][\A i \in CallSlots :
          ( /\ LawResponse(i, TRUE)
            /\ SoloLoad(i) /\ Missing(i)
            /\ calls[i].origin \in {"navigateTo", "navigateBack"}
            /\ law # NoLaw )
          => NotFoundShown']_vars

\* C7: when the load started by mounting the viewer ends because the document
\* does not exist, the viewer shows the not-found state (loading false, law
\* null) and the tab container keeps its tab and its selection.
C7_FirstMissingIsNotFound ==
    [][\A i \in CallSlots, ok \in BOOLEAN :
          ( /\ LawResponse(i, ok)
            /\ SoloLoad(i) /\ Missing(i)
            /\ calls[i].origin = "mount" )
          => ( /\ ~loading' /\ law' = NoLaw
               /\ ViewerMounted'
               /\ page' = page )]_vars

\* the selected law has no row, the only load of the viewer has ended and
\* the not-found state is shown
C7_Witness ==
    /\ NotFoundShown
    /\ LiveLoads(calls) = {}
    /\ breadcrumb = <<Entry("code", selectedLaw)>>
    /\ LawRows(selectedLaw) = {}

\* C8: while a store read of a load of the mounted viewer has not returned,
\* the loading flag is true.
C8_LoadingWhileInFlight ==
    (ViewerMounted /\ LiveLoads(calls) # {}) => loading

\* C9: when a load of an existing document has run through its document read
\* and ends, with no other load sharing the viewer, the viewer displays a
\* row of code_laws whose number is the one asked for.
C9_LoadedIsRequested ==
    [][\A i \in CallSlots, ok \in BOOLEAN :
          (RefsResponse(i, ok) /\ SoloLoad(i))
          => ( /\ Displayed'
               /\ law'.law_number = calls[i].number
               /\ law' \in InitialLaws )]_vars

\* law 1, reached from law 40, is displayed after its load
C9_Witness ==
    /\ Displayed
    /\ LiveLoads(calls) = {}
    /\ breadcrumb = <<Entry("code", 40), Entry("code", 1)>>
    /\ law.law_number = 1

\* the k-th (from 1) smallest element of a finite set of integers
Kth(S, k) == CHOOSE x \in S : Cardinality({y \in S : y < x}) = k - 1

\* the positions in cross_references of the edges with source (code, id)
OutEdges(id) ==
    {j \in 1..Len(cross_references) :
        cross_references[j].from_type = "code" /\ cross_references[j].from_id = id}

\* C10: after a load of (code, id) ends with both reads answered and no other
\* load sharing the viewer, the displayed references are exactly the edges
\* with source (code, id), in store order.
C10_ReferencesAreOutEdges ==
    [][\A i \in CallSlots :
          (RefsResponse(i, TRUE) /\ SoloLoad(i))
          => ( /\ Len(references') = Cardinality(OutEdges(calls[i].number))
               /\ \A k \in 1..Len(references') :
                     references'[k] =
                         cross_references[Kth(OutEdges(calls[i].number), k)] )]_vars

\* law 2 has no outbound edge and was reached from law 1, which has some
C10_Witness ==
    /\ Displayed
    /\ LiveLoads(calls) = {}
    /\ Len(breadcrumb) >= 2 /\ LastEntry = Entry("code", 2)
    /\ law.law_number = 2
    /\ references = <<>>
\* The numbers of a displayed list are in ascending numeric order.
Ascending(list, Number(_)) ==
    \A i \in 1..Len(list), j \in 1..Len(list) :
        i < j => Number(list[i]) < Number(list[j])

LawNumber(r) == r.law_number
ArticleNumber(r) == r.article_number

\* C11: in both hierarchies the list view displays its documents in
\* ascending numeric order of their number (2 before 10).
C11_ListsInNumericOrder ==
    /\ ListMounted => Ascending(laws, LawNumber)
    /\ RncMounted => Ascending(articles, ArticleNumber)

StaleLoad(i) == i <= Len(calls) /\ calls[i].fn = "fetchLaw" /\ ~calls[i].live

\* C12: in every state of the viewer (loading, displayed, not found, after
\* a failed read) onBack is enabled and leads to the Code list view with no
\* law selected.  (MaxCalls caps the suspended calls of the model; the new
\* list view starts one.)
C12_BackAlwaysAvailable ==
    (ViewerMounted /\ Len(calls) < MaxCalls)
        => ENABLED (onBack /\ activeTab' = "code" /\ selectedLaw' = Null)

\* the list view, reached by onBack from a viewer that was still loading
C12_Witness ==
    /\ ListMounted
    /\ \E i \in CallSlots : StaleLoad(i)

\* C13: onBack discards the trail: the viewer mounted by the next selection
\* of a law X has the trail [X], whatever the trail was before.
C13_ResetDiscardsTrail ==
    [][\A n \in LawNumbers :
          onSelectLaw(n) => breadcrumb' = << Entry("code", n) >>]_vars

\* law 2 selected after onBack left a viewer whose trail was [1, 999]
C13_Witness ==
    /\ ViewerMounted
    /\ breadcrumb = << Entry("code", 2) >>
    /\ \E i \in CallSlots : StaleLoad(i) /\ calls[i].number = 999

Trail40 == << Entry("code", 40) >>
Trail40_1 == << Entry("code", 40), Entry("code", 1) >>

\* C14: over the store with laws 1, 2, 40 and the single edge 40 -> 1
\* ("see opening lead"): selecting 40 and letting its load finish displays
\* law 40 with exactly that one reference; following it gives the trail
\* [40, 1] and, once the load finishes, displays law 1; jumpTo(0) then gives
\* the trail [40] and, once the load finishes, displays law 40 again.
C14_Scenario ==
    [][/\ \A i \in CallSlots :
            (/\ RefsResponse(i, TRUE) /\ SoloLoad(i)
             /\ calls[i].origin = "mount" /\ calls[i].number = 40)
            => (/\ Displayed' /\ law'.law_number = 40
                /\ references' = << ScenarioEdge >>
                /\ breadcrumb' = Trail40)
       /\ (navigateTo("code", 1) /\ breadcrumb = Trail40)
            => breadcrumb' = Trail40_1
       /\ \A i \in CallSlots :
            (/\ RefsResponse(i, TRUE) /\ SoloLoad(i)
             /\ calls[i].origin = "navigateTo" /\ calls[i].number = 1
             /\ breadcrumb = Trail40_1)
            => (Displayed' /\ law'.law_number = 1 /\ breadcrumb' = Trail40_1)
       /\ (navigateBack(0) /\ breadcrumb = Trail40_1)
            => breadcrumb' = Trail40
       /\ \A i \in CallSlots :
            (/\ RefsResponse(i, TRUE) /\ SoloLoad(i)
             /\ calls[i].origin = "navigateBack" /\ calls[i].number = 40
             /\ breadcrumb = Trail40)
            => (Displayed' /\ law'.law_number = 40 /\ breadcrumb' = Trail40
                /\ references' = << ScenarioEdge >>)
      ]_vars

\* law 40 was selected and loaded, its reference followed and law 1 loaded
\* (law 1 has no references), then jumpTo(0) was activated: its load of
\* law 40 is in flight
C14_Witness ==
    /\ cross_references = ScenarioReferences
    /\ ViewerMounted /\ selectedLaw = 40
    /\ breadcrumb = Trail40
    /\ law.law_number = 1 /\ references = <<>>
    /\ calls # <<>> /\ SoloLoad(Len(calls))
    /\ LastCall.origin = "navigateBack" /\ LastCall.number = 40

\* C15: when a list fetch fails, the list view ends with an empty displayed
\* list and loading = false, for the fetch on mount and for a re-fetch by
\* the reload button alike.
C15_FailedListFetchShowsEmpty ==
    [][/\ \A i \in CallSlots :
            (ListResponse(i, FALSE) /\ calls[i].live)
            => (laws' = <<>> /\ ~lawsLoading')
       /\ \A i \in CallSlots :
            (ArticlesResponse(i, FALSE) /\ calls[i].live)
            => (articles' = <<>> /\ ~articlesLoading')
      ]_vars

\* C16: whenever the viewer is mounted (its mount effect has run) the trail
\* is non-empty; no sequence of follow / jumpTo empties it.
C16_TrailNonEmpty == ViewerMounted => Len(breadcrumb) >= 1

\* the viewer right after a jump back to the first entry of a longer trail
C16_Witness ==
    /\ ViewerMounted
    /\ breadcrumb = << Entry("code", 1) >>
    /\ law.law_number = 2
    /\ calls # <<>> /\ LastCall.live /\ LastCall.origin = "navigateBack"

\* C17: activating a reference of type rnc issues no store read and leaves
\* the trail, the displayed document, the references and loading unchanged.
C17_RncFollowIsNoOp ==
    [][\A id \in LawNumbers :
          navigateTo("rnc", id)
          => UNCHANGED << calls, breadcrumb, law, references, loading >>]_vars

\* law 40 on display right after its rnc reference was activated
C17_Witness ==
    /\ followed = [type |-> "rnc", id |-> 2, before |-> breadcrumb]
    /\ Displayed /\ law.law_number = 40
    /\ LiveLoads(calls) = {}

\* C18: loads are not cancelled and responses are applied in arrival
\* order: the document read of a load that overlaps another one is applied
\* when it arrives, whichever load was started last, so a load A overtaken
\* by a later load B ends up on display although the trail ends at B.
C18_StaleResponseApplied ==
    [][\A i \in CallSlots :
          (/\ LawResponse(i, TRUE) /\ ~Missing(i)
           /\ calls[i].live /\ ~calls[i].solo)
          => (law'.law_number = calls[i].number /\ UNCHANGED breadcrumb)]_vars

\* law 1 selected, its reference to 2 followed (load A), jumpTo(0) (load B
\* of law 1) while A was in flight; B is over, A's document read has just
\* returned, and A's law 2 is on display under the trail [1]
C18_Witness ==
    /\ Displayed
    /\ breadcrumb = << Entry("code", 1) >>
    /\ law.law_number = 2
    /\ Len(calls) = 1
    /\ calls[1].live /\ ~calls[1].solo
    /\ calls[1].number = 2 /\ calls[1].pc = "refs"
    /\ calls[1].origin = "navigateTo"

\* the references reads in flight
RefReads(cs) == {j \in 1..Len(cs) : cs[j].fn = "fetchLaw" /\ cs[j].pc = "refs"}

\* C19: the references read is issued only after the document read has
\* returned successfully; when the document read fails or finds no row, no
\* references read is issued and the displayed document and references
\* keep their previous values.
C19_ReadsAreSequential ==
    [][/\ Cardinality(RefReads(calls')) > Cardinality(RefReads(calls))
            => \E i \in CallSlots : LawResponse(i, TRUE) /\ ~Missing(i)
       /\ \A i \in CallSlots, ok \in BOOLEAN :
            (LawResponse(i, ok) /\ (~ok \/ Missing(i)))
            => (/\ Cardinality(RefReads(calls')) = Cardinality(RefReads(calls))
                /\ Len(calls') = Len(calls) - 1
                /\ law' = law /\ references' = references)
      ]_vars

\* law 1 and its references still on display after the load of the missing
\* law 999 ended at its document read
C19_Witness ==
    /\ Displayed /\ calls = <<>>
    /\ breadcrumb = << Entry("code", 1), Entry("code", 999) >>
    /\ law.law_number = 1
    /\ references = RefRows(1)

\* the user actions that start a load: mounting a list view or the viewer
\* (selection, onBack, tab change), follow of a code reference, jumpTo and
\* reload
LoadingAction ==
    \/ \E n \in LawNumbers : onSelectLaw(n)
    \/ onBack
    \/ reload
    \/ \E t \in {"code", "rnc"} : t # activeTab /\ setActiveTab(t)
    \/ \E id \in LawNumbers : navigateTo("code", id)
    \/ \E index \in TrailIndexes : navigateBack(index)

\* a read of the call in slot i returns with an error
FailedResponse(i) ==
    \/ LawResponse(i, FALSE)
    \/ RefsResponse(i, FALSE)
    \/ ListResponse(i, FALSE)
    \/ ArticlesResponse(i, FALSE)

\* C20: there is no retry: a failed read ends its load and starts no other
\* request, and a load is started by exactly one user action (mount or
\* selection, follow, jumpTo, reload), one load per action.
C20_NoRetry ==
    [][/\ LoadingAction => Len(calls') = Len(calls) + 1
       /\ ~LoadingAction => Len(calls') <= Len(calls)
       /\ \A i \in CallSlots :
            FailedResponse(i) => Len(calls') = Len(calls) - 1
      ]_vars

\* the list read on mount has failed and nothing is in flight
C20_Witness ==
    /\ ListMounted /\ ~lawsLoading
    /\ laws = <<>> /\ code_laws = InitialLaws
    /\ calls = <<>>

\* C21: whenever a document is displayed (loading false, law non-null) the
\* displayed reference list is the list of outbound edges of that document,
\* also after a failed references read and after interleaved responses.
C21_ReferencesOfDisplayed ==
    Displayed => references = RefRows(law.law_number)

\* a step of the user: a click on a row, a link, a button or a tab
UserAction ==
    \/ \E n \in LawNumbers : onSelectLaw(n)
    \/ onBack
    \/ reload
    \/ \E t \in Tabs : setActiveTab(t)
    \/ \E type \in RefTypes, id \in LawNumbers : navigateTo(type, id)
    \/ \E index \in TrailIndexes : navigateBack(index)

\* no mounted view shows its loading indicator
Settled ==
    /\ ViewerMounted => ~loading
    /\ ListMounted => ~lawsLoading
    /\ RncMounted => ~articlesLoading

\* C22: if every issued read eventually returns, then once the user stops
\* acting every mounted view reaches loading = false, also after a failed
\* read, and a view that is not loading stays so until the next user action.
C22_LoadingEnds ==
    /\ (<>[][~UserAction]_vars) => <>[]Settled
    /\ [][~UserAction =>
            /\ (ViewerMounted /\ ~loading) => ~loading'
            /\ (ListMounted /\ ~lawsLoading) => ~lawsLoading'
            /\ (RncMounted /\ ~articlesLoading) => ~articlesLoading'
         ]_vars

\* the viewer after its load failed: not loading, nothing in flight
C22_Witness ==
    /\ NotFoundShown /\ calls = <<>>
    /\ code_laws = InitialLaws
    /\ breadcrumb = << Entry("code", 40) >>

\* a read of the call in slot i returns
ResponseOf(i, ok) ==
    \/ LawResponse(i, ok)
    \/ RefsResponse(i, ok)
    \/ ListResponse(i, ok)
    \/ ArticlesResponse(i, ok)

\* C23: a response that arrives after its component was discarded (onBack,
\* tab switch) has no effect: it changes neither activeTab / selectedLaw nor
\* the document, references, loading flag or trail of a viewer opened
\* afterwards (nor a list view).
C23_StaleResponseHasNoEffect ==
    [][\A i \in CallSlots, ok \in BOOLEAN :
          (ResponseOf(i, ok) /\ ~calls[i].live)
          => UNCHANGED << page, viewer, listView, rncView >>]_vars

\* a viewer opened for law 2 while the load of law 1 of a discarded viewer
\* goes on: its document read has returned, its references read is out
C23_Witness ==
    /\ ViewerMounted /\ selectedLaw = 2
    /\ breadcrumb = << Entry("code", 2) >>
    /\ law.law_number # 1
    /\ \E i \in CallSlots :
          StaleLoad(i) /\ calls[i].number = 1 /\ calls[i].pc = "refs"

\* C24: a tab switch keeps the selection: leaving the Code tab leaves
\* selectedLaw alone, and coming back with law L selected shows the viewer
\* (not the list) with the trail [L] and a fresh load of L, whatever the
\* trail of the viewer was when the tab was left.
C24_TabRoundTrip ==
    [][\A t \in Tabs :
          setActiveTab(t)
          => /\ selectedLaw' = selectedLaw
             /\ (t = "code" /\ activeTab # "code" /\ selectedLaw # Null)
                  => /\ ViewerMounted'
                     /\ breadcrumb' = << Entry("code", selectedLaw) >>
                     /\ law' = NoLaw /\ references' = <<>> /\ loading'
                     /\ LastCall' = Call("fetchLaw", selectedLaw, "law", "mount", TRUE)
      ]_vars

\* back in the Code tab with law 1 selected: a new viewer with trail [1]
\* loads law 1, and the load of law 999 that the earlier viewer started by
\* following a reference (trail [1, 999]) is still out
C24_Witness ==
    /\ ViewerMounted /\ selectedLaw = 1
    /\ breadcrumb = << Entry("code", 1) >>
    /\ Len(calls) = 2
    /\ StaleLoad(1) /\ calls[1].number = 999
    /\ calls[2] = Call("fetchLaw", 1, "law", "mount", TRUE)

\* C25: for the whole lifetime of a viewer the first trail entry is
\* {code, the law selected from the list}; no follow or jumpTo changes or
\* removes it.
C25_FirstEntryIsSelection ==
    ViewerMounted =>
        (Len(breadcrumb) >= 1 /\ breadcrumb[1] = Entry("code", selectedLaw))

\* law 40 was selected and its reference to law 1 followed; law 1 is on
\* display and the trail still starts at 40
C25_Witness ==
    /\ Displayed /\ law.law_number = 1
    /\ selectedLaw = 40
    /\ breadcrumb = << Entry("code", 40), Entry("code", 1) >>
    /\ calls = <<>>

\* C26: every entry of the trail has type code in every reachable state,
\* so navigateBack never takes its rnc branch: every jumpTo issues a load,
\* that of the entry jumped to.
C26_TrailIsAllCode ==
    /\ [](\A k \in 1..Len(breadcrumb) : breadcrumb[k].type = "code")
    /\ [][\A index \in TrailIndexes :
             navigateBack(index)
             => /\ Len(calls') = Len(calls) + 1
                /\ LastCall'.fn = "fetchLaw" /\ LastCall'.pc = "law"
                /\ LastCall'.number = breadcrumb[index + 1].id]_vars

\* jumpTo(0) has issued a load of law 1, the entry jumped to
C26_Witness ==
    /\ ViewerMounted
    /\ breadcrumb = << Entry("code", 1) >>
    /\ law.law_number = 1
    /\ calls # <<>> /\ LastCall.live
    /\ LastCall.origin = "navigateBack" /\ LastCall.number = 1

NoOverlapYet == \A i \in LiveLoads(calls) : calls[i].solo

\* C28: follow is enabled only where loading is false and a document is
\* displayed, while jumpTo on every existing trail index and onBack are
\* enabled in every state of the viewer, also while a load is in flight
\* (MaxCalls caps the suspended calls of the model); hence the first
\* overlap of two loads in a viewer is started by a jumpTo.
C28_OnlyJumpToOverlaps ==
    /\ [](\A type \in RefTypes, id \in LawNumbers :
             ENABLED navigateTo(type, id) => Displayed)
    /\ []((ViewerMounted /\ Len(calls) < MaxCalls)
             => /\ ENABLED onBack
                /\ \A index \in 0..(Len(breadcrumb) - 1) :
                      ENABLED navigateBack(index))
    /\ [][(/\ ViewerMounted /\ LiveLoads(calls) # {} /\ NoOverlapYet
            /\ Cardinality(LiveLoads(calls')) > Cardinality(LiveLoads(calls)))
           => \E index \in TrailIndexes : navigateBack(index)]_vars

\* the load of law 40 on mount was still out when jumpTo(0) started
\* another one: the first two overlapping loads of this viewer
C28_Witness ==
    /\ ViewerMounted /\ loading /\ law = NoLaw
    /\ calls = << Call("fetchLaw", 40, "law", "mount", FALSE),
                  Call("fetchLaw", 40, "law", "navigateBack", FALSE) >>

\* C29: follow(code, id) appends {code, id} to the trail in the step that
\* issues the load, before any response, and no response of a load changes
\* the trail, whether it succeeds, fails or finds no row; following a
\* reference to the displayed document appends a duplicate entry.
C29_FollowAppendsAtOnce ==
    [][/\ \A id \in LawNumbers :
            navigateTo("code", id)
            => /\ breadcrumb' = Append(breadcrumb, Entry("code", id))
               /\ Len(calls') = Len(calls) + 1
               /\ LastCall'.number = id /\ LastCall'.pc = "law"
               /\ LastCall'.live
       /\ \A i \in CallSlots, ok \in BOOLEAN :
            (LawResponse(i, ok) \/ RefsResponse(i, ok))
            => UNCHANGED breadcrumb
      ]_vars

\* law 1 is displayed and its reference to law 1 itself has just been
\* followed: the trail is [1, 1] while the load is still out
C29_Witness ==
    /\ ViewerMounted /\ law.law_number = 1
    /\ followed = [type |-> "code", id |-> 1, before |-> << Entry("code", 1) >>]
    /\ breadcrumb = << Entry("code", 1), Entry("code", 1) >>
    /\ calls # <<>> /\ LastCall.pc = "law" /\ LastCall.origin = "navigateTo"

====
